---- MODULE Spec2Model ----
(***************************************************************************)
(* Model of downloader.py: the per-URL transfer (download_file), the       *)
(* process-pool dispatcher (download_files_parallel) and the retry loop    *)
(* of main.                                                                *)
(*                                                                         *)
(* A URL is kept in parsed form: scheme, netloc, and the stem and suffix   *)
(* of its path.  The stem is a sequence of characters so that the          *)
(* 'DM_' / 'DO_' / 'DA_' prefix tests and the truncation of                *)
(* generate_unique_filename are computed, not assumed.                     *)
(*                                                                         *)
(* The remote server is the environment: each URL has a fixed body length, *)
(* a Content-Length header that is present or missing, and a Last-Modified *)
(* header that is missing, unparsable or a date.  What a single request    *)
(* does (network failure, status code, a short body) is chosen freely.     *)
(*                                                                         *)
(* The wall clock is read only by generate_unique_filename, so time passes *)
(* lazily: a reading is any second between the last reading and MaxClock;  *)
(* time.sleep moves it forward by retry_delay.                             *)
(***************************************************************************)
EXTENDS Integers, Sequences, FiniteSets, TLC

\* ------------------------------------------------------------------ bounds
MaxUrls  == 2     \* longest input list
MaxRetry == 1     \* largest retry_count of a valid configuration
MaxDelay == 1     \* largest retry_delay of a valid configuration
MaxClock == 0     \* seconds that may pass by themselves during one run
MaxRand  == 1     \* random.randint(0, MaxRand) instead of (0, 9999)
PoolMax  == 2     \* largest configured max_workers
MaxRerunUrls == 1 \* longest input list of a run that is followed by a rerun

\* ------------------------------------------------------- program constants
NAME_MAX        == 255   \* generate_unique_filename: 255
TIMESTAMP_LEN   == 14    \* len of strftime('%Y%m%d%H%M%S')
PARTIAL_CONTENT == 206
OK_STATUS       == 200
NOT_FOUND       == 404   \* stands for every status other than 200 and 206

\* ------------------------------------------------------------ the URL pool
DM_x == <<"D", "M", "_", "x">>

UrlA == [scheme |-> "https", netloc |-> "h", stem |-> DM_x,     suffix |-> ".jpg"]
UrlB == [scheme |-> "https", netloc |-> "g", stem |-> DM_x,     suffix |-> ".jpg"]
UrlC == [scheme |-> "",      netloc |-> "",  stem |-> <<"n">>,  suffix |-> ""]
UrlD == [scheme |-> "https", netloc |-> "h", stem |-> <<"y">>,  suffix |-> ".bin"]
UrlE == [scheme |-> "https", netloc |-> "h", stem |-> <<"z">>,  suffix |-> ".bin"]
UrlF == [scheme |-> "https", netloc |-> "",  stem |-> <<"y">>,  suffix |-> ".bin"]

Urls == {UrlA, UrlB, UrlC, UrlD, UrlE, UrlF}

\* The remote file behind a URL: the length of its body, whether the server
\* sends Content-Length, and its Last-Modified header ("none", "bad" for a
\* value strptime rejects, "date" with the second it names).
Remote(u) ==
    CASE u = UrlA -> [body |-> 2, has_len |-> TRUE,  lm |-> "date", lm_ts |-> 1]
      [] u = UrlB -> [body |-> 1, has_len |-> TRUE,  lm |-> "date", lm_ts |-> 1]
      [] u = UrlD -> [body |-> 1, has_len |-> FALSE, lm |-> "none", lm_ts |-> 0]
      [] u = UrlE -> [body |-> 1, has_len |-> TRUE,  lm |-> "bad",  lm_ts |-> 0]
      [] OTHER    -> [body |-> 0, has_len |-> FALSE, lm |-> "none", lm_ts |-> 0]

\* All sequences over S of length at most n.
SeqsUpTo(S, n) == UNION {[1..k -> S] : k \in 0..n}

Min2(a, b) == IF a < b THEN a ELSE b
Max2(a, b) == IF a > b THEN a ELSE b

\* ---------------------------------------------------------------- state
VARIABLES
    input,         \* the lines of the input file
    max_workers,   \* settings.max_workers
    retry_count,   \* settings.retry_count
    retry_delay,   \* settings.retry_delay
    folder_ok,     \* folders.downloads is an existing directory
    input_ok,      \* files.input is an existing file
    pc,            \* where main is
    attempt,       \* the loop variable of main
    urls,          \* main's working list
    results,       \* what download_files_parallel returned
    workers,       \* the pool's size after the clamp
    unit,          \* one record per submitted future
    completed,     \* indices of the futures in the order they finished
    clock,         \* the last reading of the wall clock, in seconds
    files,         \* the downloads tree: path -> size and modified time
    origin,        \* position in urls -> position in input it descends from
    succIdx,       \* input positions whose own unit returned success
    failIdx,       \* input positions whose own unit returned a failure tuple
    prev,          \* URL -> bytes its failed attempt left, previous round
    rounds,        \* calls of download_files_parallel in this run
    sleeps,        \* calls of time.sleep in this run
    run,           \* 1 for the first run of the program, 2 for a rerun
    exit_code      \* the exit status of the process, -1 while it runs

config == <<input, max_workers, retry_count, retry_delay, folder_ok, input_ok>>
ghost  == <<origin, succIdx, failIdx, prev, rounds, sleeps, run>>
vars   == <<input, max_workers, retry_count, retry_delay, folder_ok, input_ok,
            pc, attempt, urls, results, workers, unit, completed, clock, files,
            origin, succIdx, failIdx, prev, rounds, sleeps, run, exit_code>>

\* ------------------------------------------------- naming (lines 36-108)
StartsWith(s, p) == Len(s) >= Len(p) /\ SubSeq(s, 1, Len(p)) = p

\* len(str(n)) for the random number.
DigitLen(n) == IF n < 10 THEN 1 ELSE IF n < 100 THEN 2 ELSE IF n < 1000 THEN 3 ELSE 4

\* generate_unique_filename: the name is (filename, timestamp, random number,
\* extension), the filename cut to fit NAME_MAX.
generate_unique_filename(filename, extension, timestamp, random_number) ==
    LET max_len == NAME_MAX - Len(extension) - 1
        keep    == max_len - TIMESTAMP_LEN - DigitLen(random_number) - 2
        name    == IF Len(filename) > keep THEN SubSeq(filename, 1, keep) ELSE filename
    IN  <<name, timestamp, random_number, extension>>

Subfolder(stem) ==
    IF StartsWith(stem, <<"D", "M", "_">>) THEN "DM"
    ELSE IF StartsWith(stem, <<"D", "O", "_">>) THEN "DO"
    ELSE IF StartsWith(stem, <<"D", "A", "_">>) THEN "DA"
    ELSE ""

\* output_file of download_file: the subfolder and the unique name.
OutputFile(u, timestamp, random_number) ==
    <<Subfolder(u.stem)>> \o generate_unique_filename(u.stem, u.suffix, timestamp, random_number)

\* A faulty URL check that accepts everything; InvalidUrlOutcome must reject
\* it.
ValidUrlAny(u) == TRUE

\* Line 74.
ValidUrl(u) == u.scheme # "" /\ u.netloc # ""

NoPath == <<>>

\* ------------------------------------------------------ the file system
Exists(p)   == p \in DOMAIN files
SizeOf(p)   == IF Exists(p) THEN files[p].size ELSE 0
\* A file written by the program carries the time of the write, which has a
\* sub-second part and equals no Last-Modified; os.utime stores a whole second.
LocalMtime  == [set |-> FALSE, ts |-> 0]
StampedMtime(t) == [set |-> TRUE, ts |-> t]

PutFile(p, sz, mt) ==
    [q \in (DOMAIN files) \cup {p} |-> IF q = p THEN [size |-> sz, mtime |-> mt] ELSE files[q]]

\* remote_size of line 129: Content-Length, 0 when the header is missing.
RemoteSize(u) == IF Remote(u).has_len THEN Remote(u).body ELSE 0

\* The Range header of line 137 starts at the local size just read.
RangeStart(local_size) == local_size

\* ------------------------------------------------------------------ units
Pending == [pc |-> "pending", out |-> NoPath, local_size |-> 0, remote_size |-> 0,
            range |-> 0, status |-> 0, pos |-> 0, res |-> "none", err |-> "",
            via |-> "", got |-> FALSE, pre |-> -1, ret |-> -1, full |-> FALSE,
            io |-> FALSE]

N == Len(urls)
Idx == 1..N

Running(i) == unit[i].pc \notin {"pending", "done"}
NumRunning == Cardinality({i \in DOMAIN unit : Running(i)})

\* A finished unit: res is "ok" (True, path, ""), "fail" (False, path, message)
\* or "raised" (an exception left download_file).
Finish(i, res, err, via, u) ==
    [u EXCEPT !.pc = "done", !.res = res, !.err = err, !.via = via,
              !.local_size = 0, !.remote_size = 0, !.pos = 0,
              !.ret = IF u.out = NoPath THEN -1 ELSE SizeOf(u.out)]

Init ==
    /\ input \in SeqsUpTo(Urls, MaxUrls)
    /\ max_workers \in 0..PoolMax
    /\ retry_count \in -1..MaxRetry
    /\ retry_delay \in -1..MaxDelay
    /\ folder_ok \in BOOLEAN
    /\ input_ok \in BOOLEAN
    /\ pc = "start"
    /\ attempt = 0
    /\ urls = <<>>
    /\ results = <<>>
    /\ workers = 0
    /\ unit = <<>>
    /\ completed = <<>>
    /\ clock = 0
    /\ files = <<>>
    /\ origin = <<>>
    /\ succIdx = {}
    /\ failIdx = {}
    /\ prev = <<>>
    /\ rounds = 0
    /\ sleeps = 0
    /\ run = 1
    /\ exit_code = -1

\* ---------------------------------------------------------------- main
\* main, lines 227-248: load and validate the configuration, read the URLs.
\* A ValueError raised here is not caught: the process dies with a traceback.
\* A faulty exit status that never reports failure; ExitSignalAmended must
\* reject it.
ExitCodeNoFailure(p) ==
    IF p \in {"AllSucceeded", "BudgetExhausted", "Crashed"} THEN 0 ELSE -1

\* Lines 267-270 and the interpreter: sys.exit(1) in the else clause of the
\* loop, status 1 for an exception nothing catches, status 0 when main
\* returns after the break; -1 stands for a process still running.
ExitCode(p) ==
    IF p = "AllSucceeded" THEN 0
    ELSE IF p \in {"BudgetExhausted", "Crashed"} THEN 1
    ELSE -1

\* A faulty validation that forgets retry_delay; ConfigErrorsFatal must
\* reject it.
ConfigInvalidRetryOnly(rc, rd) == rc < 0

\* Lines 240-245.
ConfigInvalid(rc, rd) == rc < 0 \/ rd < 0

MainValidate ==
    /\ pc = "start"
    /\ IF ~input_ok \/ ConfigInvalid(retry_count, retry_delay)
       THEN /\ pc' = "Crashed"
            /\ UNCHANGED <<urls, origin>>
       ELSE /\ pc' = "loop"
            /\ urls' = input
            /\ origin' = [i \in 1..Len(input) |-> i]
    /\ exit_code' = ExitCode(pc')
    /\ attempt' = 0
    /\ UNCHANGED <<config, results, workers, unit, completed, clock, files,
                   succIdx, failIdx, prev, rounds, sleeps, run>>

\* A faulty clamp that keeps the larger number; ConcurrencyCap must reject it.
ClampWorkersLarger(mw, num_urls) == IF mw > num_urls THEN mw ELSE num_urls

\* Lines 194-196: the pool is never larger than the batch.
ClampWorkers(mw, num_urls) == IF mw > num_urls THEN num_urls ELSE mw

\* download_files_parallel, lines 191-201, entered from line 251 while the
\* for loop has iterations left.  ProcessPoolExecutor itself raises ValueError
\* for a pool of size 0, which is what the clamp produces for an empty batch.
DispatchSubmit ==
    /\ pc = "loop"
    /\ attempt <= retry_count
    /\ rounds' = rounds + 1
    /\ IF max_workers <= 0 \/ ClampWorkers(max_workers, N) <= 0
       THEN /\ pc' = "Crashed"
            /\ UNCHANGED <<workers, unit, completed>>
       ELSE /\ workers' = ClampWorkers(max_workers, N)
            /\ unit' = [i \in Idx |-> Pending]
            /\ completed' = <<>>
            /\ pc' = "pool"
    /\ exit_code' = ExitCode(pc')
    /\ UNCHANGED <<config, attempt, urls, results, clock, files,
                   origin, succIdx, failIdx, prev, sleeps, run>>

\* The else clause of the for loop, lines 267-270: sys.exit(1).
MainExhausted ==
    /\ pc = "loop"
    /\ attempt > retry_count
    /\ pc' = "BudgetExhausted"
    /\ exit_code' = ExitCode(pc')
    /\ UNCHANGED <<config, attempt, urls, results, workers, unit, completed,
                   clock, files, ghost>>

\* -------------------------------------------------------- download_file
UnitFrame == UNCHANGED <<config, pc, attempt, urls, results, workers, ghost, exit_code>>

Done(i, u) ==
    /\ unit' = [unit EXCEPT ![i] = u]
    /\ completed' = IF u.pc = "done" THEN Append(completed, i) ELSE completed

\* time.mktime(strptime(header)): the second the header names.
ParseLastModified(r) == r.lm_ts

\* Lines 111-120, for the file at path p: the timestamp short-circuit, taken
\* only for a file that exists.
ExistsCheck(i, u, p) ==
    LET r == Remote(urls[i])
        v == [u EXCEPT !.out = p]
    IN  IF ~Exists(p)
        THEN Done(i, [v EXCEPT !.pc = "size"])
        ELSE \E net \in {"ok", "fail"} :
             IF net = "fail" THEN Done(i, Finish(i, "raised", "head", "", v))
             ELSE IF r.lm = "bad" THEN Done(i, Finish(i, "raised", "strptime", "", v))
             ELSE IF r.lm = "date" /\ files[p].mtime = StampedMtime(ParseLastModified(r))
             THEN Done(i, Finish(i, "ok", "", "timestamp", [v EXCEPT !.pre = SizeOf(p)]))
             ELSE Done(i, [v EXCEPT !.pc = "size"])

\* Lines 72-120, run when a worker of the pool takes the call off the queue
\* (calls are taken in the order they were submitted): the URL check, the
\* folder check, the destination name and the look at the destination.
UnitStart(i) ==
    /\ pc = "pool"
    /\ unit[i].pc = "pending"
    /\ \A j \in Idx : j < i => unit[j].pc # "pending"
    /\ NumRunning < workers
    /\ IF ~ValidUrl(urls[i])
       THEN /\ Done(i, Finish(i, "fail", "Invalid URL", "", unit[i]))
            /\ UNCHANGED clock
       ELSE IF ~folder_ok
       THEN /\ Done(i, Finish(i, "raised", "Invalid downloads folder", "",
                              [unit[i] EXCEPT !.io = TRUE]))
            /\ UNCHANGED clock
       ELSE \E now \in clock..Max2(clock, MaxClock), random_number \in 0..MaxRand :
            /\ clock' = now
            /\ ExistsCheck(i, [unit[i] EXCEPT !.io = TRUE],
                           OutputFile(urls[i], now, random_number))
    /\ UNCHANGED files
    /\ UnitFrame

\* Line 131.
UpToDate(local_size, remote_size) == local_size >= remote_size

\* Lines 123-134: the size short-circuit.
UnitSize(i) ==
    LET u == unit[i]
    IN  /\ pc = "pool"
        /\ u.pc = "size"
        /\ \E net \in {"ok", "fail"} :
            LET v == [u EXCEPT !.local_size = SizeOf(u.out),
                               !.pre = IF Exists(u.out) THEN SizeOf(u.out) ELSE -1]
                w == [v EXCEPT !.remote_size = RemoteSize(urls[i])]
            IN  IF net = "fail" THEN Done(i, Finish(i, "raised", "head", "", v))
                ELSE IF UpToDate(w.local_size, w.remote_size)
                THEN Done(i, Finish(i, "ok", "", "size", w))
                ELSE Done(i, [w EXCEPT !.pc = "get"])
        /\ UNCHANGED <<clock, files>>
        /\ UnitFrame

\* What open(mode) does to the file: 'ab' creates it if missing and keeps
\* its bytes, 'wb' creates or empties it.
OpenFor(status, p) ==
    IF status = PARTIAL_CONTENT
    THEN PutFile(p, SizeOf(p), IF Exists(p) THEN files[p].mtime ELSE LocalMtime)
    ELSE PutFile(p, 0, LocalMtime)

\* Lines 137-153: the data request and the branch on its status code.
UnitGet(i) ==
    LET u == [unit[i] EXCEPT !.got = TRUE, !.range = RangeStart(unit[i].local_size)]
    IN  /\ pc = "pool"
        /\ unit[i].pc = "get"
        /\ \/ Done(i, Finish(i, "raised", "get", "", u)) /\ UNCHANGED files
           \/ \E status \in {PARTIAL_CONTENT, OK_STATUS, NOT_FOUND} :
                IF status \in {PARTIAL_CONTENT, OK_STATUS}
                THEN /\ files' = OpenFor(status, u.out)
                     /\ Done(i, [u EXCEPT !.pc = "stream", !.status = status, !.pos = 0])
                ELSE /\ Done(i, Finish(i, "fail", "status", "", [u EXCEPT !.status = status]))
                     /\ UNCHANGED files
        /\ UNCHANGED clock
        /\ UnitFrame

\* The body the server sends: from the range start on a 206, whole on a 200.
BodyLen(status, range, r) ==
    IF status = PARTIAL_CONTENT THEN Max2(r.body - range, 0) ELSE r.body

\* The size of the file after n more bytes: appended at the end in 'ab',
\* written at the unit's own offset in 'wb'.
Written(status, size, pos, n) ==
    IF status = PARTIAL_CONTENT THEN size + n ELSE Max2(size, pos + n)

\* Lines 143-149: iter_content into the file.  The body arrives whole, or
\* one byte short, or one byte short with the connection breaking (an
\* exception out of iter_content).
UnitStream(i) ==
    LET u == unit[i]
        expected == BodyLen(u.status, u.range, Remote(urls[i]))
    IN  /\ pc = "pool"
        /\ u.pc = "stream"
        /\ \E kind \in {"full", "short", "broken"} :
            LET n == IF kind = "full" THEN expected ELSE expected - 1
            IN  /\ n >= 0
                /\ files' = IF n = 0 THEN files
                            ELSE PutFile(u.out, Written(u.status, SizeOf(u.out), u.pos, n), LocalMtime)
                /\ IF kind = "broken"
                   THEN Done(i, [Finish(i, "raised", "stream", "", u)
                                   EXCEPT !.ret = Written(u.status, SizeOf(u.out), u.pos, n)])
                   ELSE Done(i, [u EXCEPT !.pc = "verify", !.pos = u.pos + n,
                                          !.full = (kind = "full")])
        /\ UNCHANGED clock
        /\ UnitFrame

\* Line 156.
SizeMatches(size, remote_size) == size = remote_size

\* Lines 155-175: the size check and the modified time.
UnitVerify(i) ==
    LET u == unit[i]
        r == Remote(urls[i])
    IN  /\ pc = "pool"
        /\ u.pc = "verify"
        /\ IF ~SizeMatches(SizeOf(u.out), u.remote_size)
           THEN Done(i, Finish(i, "fail", "size", "", u)) /\ UNCHANGED files
           ELSE IF r.lm = "bad"
           THEN Done(i, Finish(i, "raised", "strptime", "", u)) /\ UNCHANGED files
           ELSE /\ Done(i, Finish(i, "ok", "", "transfer", u))
                /\ files' = IF r.lm = "date"
                            THEN PutFile(u.out, SizeOf(u.out), StampedMtime(ParseLastModified(r)))
                            ELSE files
        /\ UNCHANGED clock
        /\ UnitFrame

\* ---------------------------------------------- download_files_parallel
\* The tuple download_file returned.
Outcome(u) == [success |-> u.res = "ok", path |-> u.out, error |-> u.err]

\* Line 202: as_completed yields the futures in the order they finished.
ResultOrder(done_order) == done_order

\* Lines 202-204: leaving the with block waits for every call; the list holds
\* future.result() of each future as_completed yields.  A future whose call
\* raised re-raises in result(), and nothing catches it.
\* A faulty dispatcher that waits for one unit only; NoOverlappingRounds must
\* reject it.
SomeFinished == \E i \in Idx : unit[i].pc = "done"

\* Lines 200-204: the list of results is complete, and the with block is
\* left, only when every future is done.
AllFinished == \A i \in Idx : unit[i].pc = "done"

DispatchReturn ==
    /\ pc = "pool"
    /\ AllFinished
    /\ IF \E i \in Idx : unit[i].res = "raised"
       THEN /\ pc' = "Crashed"
            /\ UNCHANGED <<results, succIdx, failIdx>>
       ELSE /\ pc' = "partition"
            /\ results' = [k \in 1..Len(completed) |-> Outcome(unit[ResultOrder(completed)[k]])]
            /\ succIdx' = succIdx \cup {origin[i] : i \in {j \in Idx : unit[j].res = "ok"}}
            /\ failIdx' = failIdx \cup {origin[i] : i \in {j \in Idx : unit[j].res = "fail"}}
    /\ exit_code' = ExitCode(pc')
    /\ UNCHANGED <<config, attempt, urls, workers, unit, completed, clock, files,
                   origin, prev, rounds, sleeps, run>>

\* The positions zip(urls, results) pairs with a failure.
RECURSIVE Pick(_, _, _)
Pick(s, keep, k) ==
    IF k > Len(s) THEN <<>>
    ELSE (IF k \in keep THEN <<s[k]>> ELSE <<>>) \o Pick(s, keep, k + 1)

FailedPositions(us, rs) == {k \in 1..Min2(Len(us), Len(rs)) : ~rs[k].success}

\* Lines 252-253.
FailureFilter(us, rs) == Pick(us, FailedPositions(us, rs), 1)

\* What the failed attempts of this round left on disk, per URL that was
\* dispatched once in the round.
LeftBehind ==
    LET once == {i \in Idx : unit[i].res = "fail" /\ unit[i].out # NoPath
                             /\ \A j \in Idx : urls[j] = urls[i] => j = i}
    IN  [u \in {urls[i] : i \in once} |->
            SizeOf(unit[CHOOSE i \in once : urls[i] = u].out)]

\* A faulty condition that also sleeps after the last round;
\* CooldownPlacement must reject it.
ShouldSleepAfterLast(att, rc) == att <= rc

\* Line 263.
ShouldSleep(att, rc) == att < rc

\* Lines 252-263.
MainPartition ==
    LET failed_urls == FailureFilter(urls, results)
    IN  /\ pc = "partition"
        /\ IF failed_urls = <<>>
           THEN /\ pc' = "AllSucceeded"
                /\ UNCHANGED <<urls, origin, attempt>>
           ELSE /\ urls' = failed_urls
                /\ origin' = Pick(origin, FailedPositions(urls, results), 1)
                /\ IF ShouldSleep(attempt, retry_count)
                   THEN pc' = "sleep" /\ UNCHANGED attempt
                   ELSE pc' = "loop" /\ attempt' = attempt + 1
        /\ prev' = LeftBehind
        /\ unit' = <<>>
        /\ completed' = <<>>
        /\ results' = <<>>
        /\ exit_code' = ExitCode(pc')
        /\ UNCHANGED <<config, workers, clock, files,
                       succIdx, failIdx, rounds, sleeps, run>>

\* Lines 263-266: time.sleep(retry_delay), then the next iteration.
MainSleep ==
    /\ pc = "sleep"
    /\ clock' = clock + retry_delay
    /\ sleeps' = sleeps + 1
    /\ attempt' = attempt + 1
    /\ pc' = "loop"
    /\ UNCHANGED <<config, urls, results, workers, unit, completed, files,
                   origin, succIdx, failIdx, prev, rounds, run, exit_code>>

Next ==
    \/ MainValidate
    \/ DispatchSubmit
    \/ MainExhausted
    \/ \E i \in DOMAIN unit : UnitStart(i)
    \/ \E i \in DOMAIN unit : UnitSize(i)
    \/ \E i \in DOMAIN unit : UnitGet(i)
    \/ \E i \in DOMAIN unit : UnitStream(i)
    \/ \E i \in DOMAIN unit : UnitVerify(i)
    \/ DispatchReturn
    \/ MainPartition
    \/ MainSleep

Spec == Init /\ [][Next]_vars

\* ------------------------------------------------------------ a second run
\* The program is started again on the same input file and downloads folder
\* after a run in which every URL succeeded; nothing on the server changed.
\* The second run may start within the same second as the last name was made.
Rerun ==
    /\ run = 1
    /\ pc = "AllSucceeded"
    /\ succIdx = 1..Len(input)
    /\ run' = 2
    /\ pc' = "start"
    /\ \E now \in clock..(clock + 1) : clock' = now
    /\ attempt' = 0
    /\ urls' = <<>>
    /\ results' = <<>>
    /\ workers' = 0
    /\ unit' = <<>>
    /\ completed' = <<>>
    /\ origin' = <<>>
    /\ succIdx' = {}
    /\ failIdx' = {}
    /\ prev' = <<>>
    /\ rounds' = 0
    /\ sleeps' = 0
    /\ exit_code' = -1
    /\ UNCHANGED <<config, files>>

\* The runs that are followed into a second run: input lists of at most
\* MaxRerunUrls lines.
InitRerun == Init /\ Len(input) <= MaxRerunUrls

NextRerun == Next \/ Rerun

SpecRerun == InitRerun /\ [][NextRerun]_vars

\* ------------------------------------------------------------------ claims
\* The URLs of the round whose own unit did not return success, in list order.
OwnFailed == Pick(urls, {i \in Idx : unit[i].res # "ok"}, 1)

\* C1: when download_files_parallel has returned, the result list has one
\* entry per URL and pairing urls with results position by position selects
\* exactly the URLs whose own unit returned a failure.
OutcomePairing ==
    pc = "partition" =>
        /\ Len(results) = Len(urls)
        /\ FailureFilter(urls, results) = OwnFailed

\* C2: when main logs that all downloads completed, every position of the
\* input list has had a success returned by its own unit in some round.
AllSucceededIsComplete ==
    pc = "AllSucceeded" => succIdx = 1..Len(input)

\* C3: no URL is dispatched in a round after one in which its own unit
\* returned success.
NoRetryAfterSuccess ==
    pc = "pool" => \A i \in Idx : origin[i] \notin succIdx

\* C4: in a finished run where some input positions failed at every attempt
\* and all the others succeeded at every attempt, main ended in the else
\* clause after retry_count + 1 dispatcher runs, with exactly the failing
\* URLs left in its list.
RetryConvergence ==
    (/\ pc \in {"AllSucceeded", "BudgetExhausted"}
     /\ failIdx # {}
     /\ succIdx \cap failIdx = {})
    => /\ pc = "BudgetExhausted"
       /\ rounds = retry_count + 1
       /\ urls = Pick(input, failIdx, 1)

\* C5: no call of download_file ends with an exception.
UnitNeverRaises ==
    \A i \in DOMAIN unit : unit[i].res # "raised"

\* C6: with a valid downloads folder, a round of the pool always ends with
\* download_files_parallel handing main one outcome per URL, and main going
\* on to the partition step, whatever happened to the single transfers.
BatchSurvivesFailure ==
    [][pc = "pool" /\ folder_ok =>
         /\ pc' \in {"pool", "partition"}
         /\ (pc' = "partition" => Len(results') = Len(urls))]_vars

\* C7: a unit that returned success left its destination file, at the moment
\* it returned, with as many bytes as the remote content length.
CompletenessInvariant ==
    \A i \in DOMAIN unit :
        unit[i].res = "ok" => unit[i].ret = RemoteSize(urls[i])

\* C8: in a second run after a fully successful first run, no unit issues a
\* data request.
RerunTransfersNothing ==
    run = 2 => \A i \in DOMAIN unit : ~unit[i].got

\* C9: a unit that found its destination file with L < R bytes (pre is the
\* size of the file when the unit last looked at it before deciding whether
\* to transfer) and met no exception issued a data request whose range
\* starts at L; and if the
\* server answered 206 or 200 with the whole body asked for, it returned
\* success with R bytes in the file.
ResumeCorrectness ==
    \A i \in DOMAIN unit :
        (/\ unit[i].pc = "done"
         /\ unit[i].res # "raised"
         /\ unit[i].pre >= 0
         /\ unit[i].pre < RemoteSize(urls[i]))
        => /\ unit[i].got
           /\ unit[i].range = unit[i].pre
           /\ (unit[i].status \in {PARTIAL_CONTENT, OK_STATUS} /\ unit[i].full
                 => unit[i].res = "ok" /\ unit[i].ret = RemoteSize(urls[i]))

\* C10: a unit about to issue its data request for a URL whose attempt in
\* the previous round failed has, as its local size, the bytes that attempt
\* left on disk.
ResumeAcrossRounds ==
    \A i \in DOMAIN unit :
        (/\ unit[i].pc = "get"
         /\ urls[i] \in DOMAIN prev
         /\ \A j \in Idx : urls[j] = urls[i] => j = i)
        => unit[i].local_size = prev[urls[i]]

\* C11: while a round of download_files_parallel over N >= 1 URLs with a
\* positive max_workers is under way, the number of units running at once
\* is at most min(max_workers, N).
ConcurrencyCap ==
    pc = "pool" /\ N >= 1 /\ max_workers > 0
        => NumRunning <= Min2(max_workers, N)

\* A pool asked for more workers than the batch has URLs, with every URL of
\* the batch running.
ConcurrencyCapReached ==
    /\ pc = "pool"
    /\ max_workers > N
    /\ N >= 1
    /\ NumRunning = N

\* C12: a run that has ended exited with a non-zero status if it reached
\* BudgetExhausted and with status zero in every other case.
ExitSignal ==
    exit_code # -1 => (exit_code # 0 <=> pc = "BudgetExhausted")

\* C12, amended: the exit status is zero exactly when the run reached
\* AllSucceeded; it is non-zero when the run reached BudgetExhausted, which
\* happens only after retry_count + 1 rounds with a non-empty list of failed
\* URLs, and also when an exception ended the run.
ExitSignalAmended ==
    /\ exit_code = -1 <=> pc \notin {"AllSucceeded", "BudgetExhausted", "Crashed"}
    /\ exit_code = 0 <=> pc = "AllSucceeded"
    /\ pc = "BudgetExhausted"
         => exit_code # 0 /\ rounds = retry_count + 1 /\ urls # <<>>
    /\ pc = "Crashed" => exit_code # 0

\* A run that used its whole budget of two rounds and exited with status 1.
ExitSignalExhausted ==
    pc = "BudgetExhausted" /\ exit_code = 1 /\ rounds = 2

\* C13: a run with a valid configuration, a valid downloads folder and a
\* non-empty URL list makes at most retry_count + 1 calls of
\* download_files_parallel and can only come to rest in AllSucceeded or
\* BudgetExhausted.
TerminationWithinBudget ==
    (/\ input_ok /\ folder_ok /\ input # <<>>
     /\ retry_count >= 0 /\ retry_delay >= 0 /\ max_workers > 0)
    => /\ rounds <= retry_count + 1
       /\ pc \in {"AllSucceeded", "BudgetExhausted"} \/ ENABLED Next

\* C14: in a run whose retry_count or retry_delay is negative or whose
\* max_workers is not positive, no unit is ever created, no file is written,
\* download_files_parallel is entered at most once and never after a sleep,
\* and the run can only stop in the crashed state.
ConfigErrorsFatal ==
    (retry_count < 0 \/ retry_delay < 0 \/ max_workers <= 0)
    => /\ unit = <<>>
       /\ files = <<>>
       /\ pc \in {"start", "loop", "Crashed"}
       /\ rounds <= 1
       /\ sleeps = 0
       /\ pc = "loop" => rounds = 0
       /\ pc = "Crashed" \/ ENABLED Next

\* A run with a non-empty URL list whose only fault is max_workers <= 0,
\* stopped by the exception of download_files_parallel.
ConfigErrorsFatalInDispatcher ==
    /\ pc = "Crashed"
    /\ max_workers <= 0
    /\ retry_count >= 0 /\ retry_delay >= 0 /\ input_ok
    /\ input # <<>>
    /\ rounds = 1

\* C15: whenever the controller is outside download_files_parallel, and so
\* in particular at the moment it enters the next round, every unit the
\* last round submitted has run to its end: none is waiting, running or
\* cancelled; and a round that returned results submitted one unit per URL.
NoOverlappingRounds ==
    pc # "pool"
    => /\ \A i \in DOMAIN unit : unit[i].pc = "done" /\ unit[i].res # "none"
       /\ NumRunning = 0
       /\ pc = "partition" => Len(unit) = Len(urls)

\* The second round of a run has returned with both of its units finished.
NoOverlappingRoundsSecond ==
    /\ pc = "partition"
    /\ rounds = 2
    /\ Len(unit) = 2
    /\ \A i \in DOMAIN unit : unit[i].pc = "done"

\* C16: two units of the same round never have the same destination path.
DistinctDestinations ==
    \A i, j \in DOMAIN unit :
        (i # j /\ unit[i].out # NoPath /\ unit[j].out # NoPath)
        => unit[i].out # unit[j].out

\* C17: a run over an empty URL list with a valid configuration and a
\* positive max_workers never ends with an exception: its first call of
\* download_files_parallel returns the empty list and the run goes on to
\* AllSucceeded.
EmptyBatch ==
    (/\ input = <<>> /\ input_ok
     /\ retry_count >= 0 /\ retry_delay >= 0 /\ max_workers > 0)
    => /\ pc # "Crashed"
       /\ rounds >= 1 => pc \in {"partition", "AllSucceeded"} /\ rounds = 1

\* C18: the unit of a URL without scheme or without network location never
\* gets beyond the URL check: it makes no folder, file or network operation
\* and no data request, has no destination path, and ends by returning a
\* failure whose message is the Invalid URL error.
InvalidUrlOutcome ==
    \A i \in DOMAIN unit :
        (urls[i].scheme = "" \/ urls[i].netloc = "")
        => /\ unit[i].pc \in {"pending", "done"}
           /\ ~unit[i].io
           /\ ~unit[i].got
           /\ unit[i].out = NoPath
           /\ unit[i].pc = "done"
                => unit[i].res = "fail" /\ unit[i].err = "Invalid URL"

\* The unit of a URL with a scheme but no network location has returned its
\* failure.
InvalidUrlReturned ==
    \E i \in DOMAIN unit :
        /\ urls[i].scheme # ""
        /\ urls[i].netloc = ""
        /\ unit[i].pc = "done"
        /\ unit[i].res = "fail"

\* C19: every step in which a unit handles the status of its data request
\* or writes the response body has the effect the status calls for: on 206
\* opening the file leaves its bytes alone and the write puts the body after
\* them; on 200 the file holds exactly the body once it is written; on any
\* other status the files are untouched and the unit returns a failure that
\* carries the status.
StatusEffect ==
    [][\A i \in DOMAIN unit :
        LET p == unit[i].out
            after == IF p \in DOMAIN files' THEN files'[p].size ELSE 0
        IN  i \in DOMAIN unit'
            => /\ (/\ unit[i].pc = "get" /\ unit'[i].pc = "stream"
                   /\ unit'[i].status = PARTIAL_CONTENT)
                  => after = SizeOf(p)
               /\ (/\ unit[i].pc = "stream" /\ unit'[i].pc = "verify"
                   /\ unit[i].status = PARTIAL_CONTENT)
                  => after = SizeOf(p) + unit'[i].pos
               /\ (/\ unit[i].pc = "stream" /\ unit'[i].pc = "verify"
                   /\ unit[i].status = OK_STATUS)
                  => after = unit'[i].pos
               /\ (/\ unit[i].pc = "get" /\ unit'[i].pc = "done"
                   /\ unit'[i].res = "fail")
                  => /\ files' = files
                     /\ unit'[i].status \notin {PARTIAL_CONTENT, OK_STATUS}
                     /\ unit'[i].err = "status"]_vars

\* C20: main sleeps exactly once between two consecutive calls of
\* download_files_parallel, for retry_delay seconds, only after a round that
\* left failed URLs and has a round of the budget after it; hence never
\* after a round in which everything succeeded and never after the last
\* round of the budget.
CooldownPlacement ==
    /\ [](/\ pc \in {"pool", "partition", "sleep", "AllSucceeded", "BudgetExhausted"}
             => sleeps = rounds - 1
          /\ pc = "sleep" => urls # <<>> /\ attempt < retry_count
          /\ pc = "loop"
             => sleeps = IF attempt <= retry_count THEN rounds ELSE rounds - 1
          /\ pc = "Crashed" => sleeps = Max2(rounds - 1, 0))
    /\ [][sleeps' # sleeps
            => /\ pc = "sleep"
               /\ sleeps' = sleeps + 1
               /\ rounds' = rounds
               /\ clock' = clock + retry_delay]_vars

\* A run that slept one second between its two rounds and none after the
\* second, which used up the budget.
CooldownPlacementExhausted ==
    /\ pc = "BudgetExhausted"
    /\ rounds = 2
    /\ sleeps = 1
    /\ retry_delay = 1
    /\ clock = 1

====
